---- MODULE Spec2Model ----
(***************************************************************************)
(* Model of the Poseidon Merkle accumulator (services/merkle_tree.rs), the *)
(* tree service that guards it with a mutex (merkle_tree_service.rs), the  *)
(* inclusion circuit (merkle_circuit.rs) and the proof service             *)
(* (zk_service.rs).                                                        *)
(*                                                                         *)
(* Field elements are terms: Fp::from(n) is the one-element tuple <<n>>    *)
(* and a Poseidon digest of (l, r) is the pair <<l, r>>.  Distinct inputs  *)
(* therefore give distinct digests and no digest equals a lifted integer:  *)
(* Poseidon is modelled as collision-free.                                 *)
(***************************************************************************)
EXTENDS Integers, Sequences, FiniteSets, TLC

\* ------------------------------------------------------------------ bounds
MaxSeedLen == 3
MaxAdds == 3
MaxCalls == 3

\* ------------------------------------------------- field and hash primitives
FpFrom(n) == <<n>>
FpZero == FpFrom(0)
FpOne == FpFrom(1)

PoseidonHash(left, right) == <<left, right>>

\* ---------------------------------------------------------------- LeafValue
Unhashed(val) == [kind |-> "Unhashed", val |-> val, fp |-> FpZero]
Hashed(fp) == [kind |-> "Hashed", val |-> 0, fp |-> fp]

\* Mutant: an Unhashed value is hashed instead of lifted.
ConvertLeafHashing(leaf) ==
    IF leaf.kind = "Unhashed" THEN PoseidonHash(FpFrom(leaf.val), FpZero) ELSE leaf.fp

ConvertLeaf(leaf) ==
    IF leaf.kind = "Unhashed" THEN FpFrom(leaf.val) ELSE leaf.fp

\* The leaf values offered to new and add: a zero, a non-zero integer and a
\* pre-hashed field element that is a digest.
LeafInputs == {Unhashed(0), Unhashed(1), Hashed(PoseidonHash(FpFrom(1), FpFrom(2)))}

\* ------------------------------------------------------------ usize helpers
RECURSIVE Pow2(_)
Pow2(k) == IF k = 0 THEN 1 ELSE 2 * Pow2(k - 1)

RECURSIVE NextPowerOfTwoFrom(_, _)
NextPowerOfTwoFrom(p, n) == IF p >= n THEN p ELSE NextPowerOfTwoFrom(2 * p, n)

\* Mutant: the size is the square of the next power of two.
NextPowerOfTwoSquared(n) == NextPowerOfTwoFrom(1, n) * NextPowerOfTwoFrom(1, n)

\* usize::next_power_of_two: the smallest power of two >= n (1 for n = 0).
NextPowerOfTwo(n) == NextPowerOfTwoFrom(1, n)

\* (n as f64).log2() as usize: the logarithm truncated toward zero.
RECURSIVE Log2(_)
Log2(n) == IF n <= 1 THEN 0 ELSE 1 + Log2(n \div 2)

\* Vec::resize(n, fill): truncate, or extend with copies of fill.
Resize(s, n, fill) ==
    [j \in 1..n |-> IF j <= Len(s) THEN s[j] ELSE fill]

\* ------------------------------------------------------------- MerkleTree
\* Mutant: the two children are hashed in the wrong order.
NextLevelSwapped(current_level) ==
    [j \in 1..(Len(current_level) \div 2) |->
        PoseidonHash(current_level[2 * j], current_level[2 * j - 1])]

\* One pass of the inner loop of build: hash the chunks of two.
NextLevel(current_level) ==
    [j \in 1..(Len(current_level) \div 2) |->
        PoseidonHash(current_level[2 * j - 1], current_level[2 * j])]

\* The outer loop of build; chunk[1] is out of bounds, and the thread panics,
\* when a level of odd length is chunked.
RECURSIVE BuildLoop(_, _, _)
BuildLoop(acc, current_level, n) ==
    IF n = 0 THEN [ok |-> TRUE, levels |-> acc]
    ELSE IF Len(current_level) % 2 = 1 THEN [ok |-> FALSE, levels |-> acc]
    ELSE LET next_level == NextLevel(current_level)
         IN  BuildLoop(Append(acc, next_level), next_level, n - 1)

Build(lv, d) == BuildLoop(<<lv>>, lv, d)

\* levels.last().unwrap()[0]
RootOk(lvls) == Len(lvls) >= 1 /\ Len(lvls[Len(lvls)]) >= 1
Root(lvls) == lvls[Len(lvls)][1]

\* Mutant: the padding is filled with ones.
PaddedLeavesOnes(converted) ==
    Resize(converted, NextPowerOfTwo(Len(converted)), FpOne)

PaddedLeaves(converted) ==
    Resize(converted, NextPowerOfTwo(Len(converted)), FpZero)

DepthOf(padded_size) == Log2(padded_size)

\* MerkleTree::new
New(seed) ==
    LET converted == [j \in 1..Len(seed) |-> ConvertLeaf(seed[j])]
        padded == PaddedLeaves(converted)
        d == DepthOf(Len(padded))
        built == Build(padded, d)
    IN  [leaves |-> padded, levels |-> built.levels, depth |-> d, ok |-> built.ok]

\* The while loop of add: pop trailing zeros while more than one leaf is left.
\* Mutant: no trailing zero is removed.
StripNothing(s) == s

\* Mutant: trailing zeros are removed down to the empty vector.
RECURSIVE StripAll(_)
StripAll(s) ==
    IF Len(s) > 0 /\ s[Len(s)] = FpZero
    THEN StripAll(SubSeq(s, 1, Len(s) - 1))
    ELSE s

\* The loop of add that pops trailing zero leaves while more than one is left.
RECURSIVE StripTrailingZeros(_)
StripTrailingZeros(s) ==
    IF Len(s) > 1 /\ s[Len(s)] = FpZero
    THEN StripTrailingZeros(SubSeq(s, 1, Len(s) - 1))
    ELSE s

\* Mutant: add does not recalculate depth after padding.
AddLeafStaleDepth(lv, leaf) ==
    LET fp_leaf == ConvertLeaf(leaf)
        pushed == Append(StripTrailingZeros(lv), fp_leaf)
        padded == PaddedLeaves(pushed)
        d == DepthOf(Len(lv))
        built == Build(padded, d)
    IN  [leaves |-> padded, levels |-> built.levels, depth |-> d, ok |-> built.ok]

\* MerkleTree::add
AddLeaf(lv, leaf) ==
    LET fp_leaf == ConvertLeaf(leaf)
        pushed == Append(StripTrailingZeros(lv), fp_leaf)
        padded == PaddedLeaves(pushed)
        d == DepthOf(Len(padded))
        built == Build(padded, d)
    IN  [leaves |-> padded, levels |-> built.levels, depth |-> d, ok |-> built.ok]

\* MerkleTree::generate_proof.  kind is "None", "Some" or "Panic" (an index out
\* of the bounds of a level, or root() on an empty level).
NoProof(kind) ==
    [kind |-> kind, leaf |-> FpZero, siblings |-> <<>>, directions |-> <<>>,
     root |-> FpZero]

\* Mutant: the direction bit is inverted.
RECURSIVE ProofLoopFlipped(_, _, _, _, _, _)
ProofLoopFlipped(lvls, d, level, current_index, siblings, directions) ==
    IF level = d THEN [ok |-> TRUE, siblings |-> siblings, directions |-> directions]
    ELSE LET is_right == current_index % 2 = 1
             direction == IF is_right THEN FpZero ELSE FpOne
             sibling_index == IF is_right THEN current_index - 1 ELSE current_index + 1
         IN  IF level + 1 > Len(lvls) \/ sibling_index >= Len(lvls[level + 1])
             THEN [ok |-> FALSE, siblings |-> siblings, directions |-> directions]
             ELSE ProofLoopFlipped(lvls, d, level + 1, current_index \div 2,
                                   Append(siblings, lvls[level + 1][sibling_index + 1]),
                                   Append(directions, direction))

\* Mutant: the index is not halved when moving up a level.
RECURSIVE ProofLoopSameIndex(_, _, _, _, _, _)
ProofLoopSameIndex(lvls, d, level, current_index, siblings, directions) ==
    IF level = d THEN [ok |-> TRUE, siblings |-> siblings, directions |-> directions]
    ELSE LET is_right == current_index % 2 = 1
             direction == IF is_right THEN FpOne ELSE FpZero
             sibling_index == IF is_right THEN current_index - 1 ELSE current_index + 1
         IN  IF level + 1 > Len(lvls) \/ sibling_index >= Len(lvls[level + 1])
             THEN [ok |-> FALSE, siblings |-> siblings, directions |-> directions]
             ELSE ProofLoopSameIndex(lvls, d, level + 1, current_index,
                            Append(siblings, lvls[level + 1][sibling_index + 1]),
                            Append(directions, direction))

RECURSIVE ProofLoop(_, _, _, _, _, _)
ProofLoop(lvls, d, level, current_index, siblings, directions) ==
    IF level = d THEN [ok |-> TRUE, siblings |-> siblings, directions |-> directions]
    ELSE LET is_right == current_index % 2 = 1
             direction == IF is_right THEN FpOne ELSE FpZero
             sibling_index == IF is_right THEN current_index - 1 ELSE current_index + 1
         IN  IF level + 1 > Len(lvls) \/ sibling_index >= Len(lvls[level + 1])
             THEN [ok |-> FALSE, siblings |-> siblings, directions |-> directions]
             ELSE ProofLoop(lvls, d, level + 1, current_index \div 2,
                            Append(siblings, lvls[level + 1][sibling_index + 1]),
                            Append(directions, direction))

\* Mutant: the range check lets leaf_index = leaves.len() through, so an
\* index past the end of a level or of leaves is read.
GenerateProofOffByOne(lv, lvls, d, leaf_index) ==
    IF leaf_index > Len(lv) THEN NoProof("None")
    ELSE LET walk == ProofLoop(lvls, d, 0, leaf_index, <<>>, <<>>)
         IN  IF ~walk.ok \/ ~RootOk(lvls) \/ leaf_index >= Len(lv)
             THEN NoProof("Panic")
             ELSE [kind |-> "Some", leaf |-> lv[leaf_index + 1],
                   siblings |-> walk.siblings, directions |-> walk.directions,
                   root |-> Root(lvls)]

GenerateProof(lv, lvls, d, leaf_index) ==
    IF leaf_index >= Len(lv) THEN NoProof("None")
    ELSE LET walk == ProofLoop(lvls, d, 0, leaf_index, <<>>, <<>>)
         IN  IF ~walk.ok \/ ~RootOk(lvls) THEN NoProof("Panic")
             ELSE [kind |-> "Some", leaf |-> lv[leaf_index + 1],
                   siblings |-> walk.siblings, directions |-> walk.directions,
                   root |-> Root(lvls)]

\* ---------------------------------------------------------- MerkleCircuit
DEPTH == 2

\* Mutant: the direction never selects the sibling.
MixFirst(c, s, d) == c

\* c * (1 - d) + s * d over the field: c for d = 0, s for d = 1, and for any
\* other d a combination that is c itself only when c = s.
Mix(c, s, d) ==
    IF d = FpZero THEN c
    ELSE IF d = FpOne THEN s
    ELSE IF c = s THEN c
    ELSE <<"mix", c, s, d>>

\* Mutant: left and right are assigned each other's value.
SwapRowCrossed(cur, sibling, dir) ==
    [cur |-> cur, sibling |-> sibling, dir |-> dir,
     left |-> Mix(sibling, cur, dir), right |-> Mix(cur, sibling, dir)]

\* The cells synthesize assigns in the swap region of one level.
SwapRow(cur, sibling, dir) ==
    [cur |-> cur, sibling |-> sibling, dir |-> dir,
     left |-> Mix(cur, sibling, dir), right |-> Mix(sibling, cur, dir)]

\* Mutant: the gate lacks the polynomial dir * (1 - dir).
SwapGateNoBinary(row) ==
    /\ row.left = Mix(row.cur, row.sibling, row.dir)
    /\ row.right = Mix(row.sibling, row.cur, row.dir)

\* The three polynomials of the "conditional swap" gate on one enabled row.
SwapGate(row) ==
    /\ row.dir = FpZero \/ row.dir = FpOne
    /\ row.left = Mix(row.cur, row.sibling, row.dir)
    /\ row.right = Mix(row.sibling, row.cur, row.dir)

\* synthesize: one swap region and one Poseidon hash per level, starting from
\* the leaf cell; gives the rows assigned and the cell constrained to the
\* instance column.
RECURSIVE Synthesize(_, _, _, _, _)
Synthesize(cur_cell, siblings, directions, i, rows) ==
    IF i > DEPTH THEN [rows |-> rows, out |-> cur_cell]
    ELSE LET row == SwapRow(cur_cell, siblings[i], directions[i])
         IN  Synthesize(PoseidonHash(row.left, row.right), siblings, directions,
                        i + 1, Append(rows, row))

\* MockProver::run(..).verify().is_ok(): every enabled gate holds and the last
\* hash output equals the public input.
MockVerify(leaf, siblings, directions, expected_root) ==
    LET a == Synthesize(leaf, siblings, directions, 1, <<>>)
    IN  /\ \A i \in 1..Len(a.rows) : SwapGate(a.rows[i])
        /\ a.out = expected_root

\* The constraints the circuit emits, over any assignment of its cells: the
\* swap gate on every level's row, the Poseidon relation from each row's left
\* and right cells (copied into the hasher) to the hash output, and the last
\* hash output equal to the instance.  The leaf cell and every row's cur cell
\* are assigned by value (assign_advice), with no constraint tying them to the
\* previous hash output.
Satisfies(cells, instance) ==
    /\ \A i \in 1..DEPTH : SwapGate(cells[i])
    /\ PoseidonHash(cells[DEPTH].left, cells[DEPTH].right) = instance

\* No circuit has been built yet.
NoCircuit ==
    [status |-> "none", secret |-> 0, leaf |-> FpZero, siblings |-> <<>>,
     directions |-> <<>>, root |-> FpZero, leafCell |-> FpZero, cells |-> <<>>,
     ok |-> FALSE, prevOk |-> FALSE, flipped |-> 0]

\* A MerkleCircuit built from a witness, before the prover runs.
NewCircuit(secret, leaf, siblings, directions, root) ==
    [NoCircuit EXCEPT !.status = "new", !.secret = secret, !.leaf = leaf,
                      !.siblings = siblings, !.directions = directions,
                      !.root = root]

\* MockProver::run on the circuit, then verify: the cells synthesize assigned
\* and whether every constraint held.
Proved(secret, leaf, siblings, directions, root) ==
    [NewCircuit(secret, leaf, siblings, directions, root) EXCEPT
        !.status = "proved",
        !.leafCell = leaf,
        !.cells = Synthesize(leaf, siblings, directions, 1, <<>>).rows,
        !.ok = MockVerify(leaf, siblings, directions, root)]

\* -------------------------------------------------------------- ZKService
\* leaves.iter().position(|l| l == x): the first 0-based index holding x, or -1.
Position(lv, x) ==
    IF \E j \in 1..Len(lv) : lv[j] = x
    THEN (CHOOSE j \in 1..Len(lv) : lv[j] = x /\ \A i \in 1..(j - 1) : lv[i] # x) - 1
    ELSE -1

ZkResult(kind, ok) == [kind |-> kind, proof |-> ok, root |-> FpZero]

ZkWitness(kind, leaf, siblings, directions, root) ==
    [kind |-> kind, leaf |-> leaf, siblings |-> siblings,
     directions |-> directions, root |-> root]

\* Mutant: the proof is cut to its first DEPTH levels instead of checked.
ZkCircuitTruncating(lv, lvls, d, leaf_val) ==
    LET idx == Position(lv, FpFrom(leaf_val))
        panic == ZkWitness("panic", FpZero, <<>>, <<>>, FpZero)
    IN  IF idx >= 0
        THEN LET p == GenerateProof(lv, lvls, d, idx)
             IN  IF p.kind # "Some" \/ Len(p.siblings) < DEPTH THEN panic
                 ELSE ZkWitness("witness", p.leaf, SubSeq(p.siblings, 1, DEPTH),
                                SubSeq(p.directions, 1, DEPTH), p.root)
        ELSE IF ~RootOk(lvls) THEN panic
             ELSE ZkWitness("witness", FpFrom(leaf_val),
                            [i \in 1..DEPTH |-> FpZero],
                            [i \in 1..DEPTH |-> FpZero], Root(lvls))

\* The witness zk_proof builds under with_tree: the leaf looked up as
\* Fp::from(leaf_val) with its Merkle proof, or zeros when it is not found.
\* kind "panic": an unwrap or the expect on the conversion to [Fp; DEPTH] failed.
ZkCircuit(lv, lvls, d, leaf_val) ==
    LET idx == Position(lv, FpFrom(leaf_val))
        panic == ZkWitness("panic", FpZero, <<>>, <<>>, FpZero)
    IN  IF idx >= 0
        THEN LET p == GenerateProof(lv, lvls, d, idx)
             IN  IF p.kind # "Some" THEN panic
                 ELSE IF Len(p.siblings) # DEPTH \/ Len(p.directions) # DEPTH
                      THEN panic
                      ELSE ZkWitness("witness", p.leaf, p.siblings, p.directions,
                                     p.root)
        ELSE IF ~RootOk(lvls) THEN panic
             ELSE ZkWitness("witness", FpFrom(leaf_val),
                            [i \in 1..DEPTH |-> FpZero],
                            [i \in 1..DEPTH |-> FpZero], Root(lvls))

\* The closure zk_proof runs under with_tree: build the circuit, run the
\* prover and report whether it verified.
ZkProof(lv, lvls, d, leaf_val) ==
    LET w == ZkCircuit(lv, lvls, d, leaf_val)
    IN  IF w.kind = "panic" THEN ZkResult("panic", FALSE)
        ELSE ZkResult("proof",
                      MockVerify(w.leaf, w.siblings, w.directions, w.root))

\* ------------------------------------------------------------------- state
VARIABLES
    leaves,     \* MerkleTree.leaves
    levels,     \* MerkleTree.levels
    depth,      \* MerkleTree.depth
    panicked,   \* the thread using the tree panicked inside new, add or a proof
    seedIn,     \* history: the leaf values given to new
    added,      \* history: the leaf values given to add, in order
    placed,     \* history: <<index, value>> for every supplied leaf as stored
    nextFree,   \* history: the index following the last supplied leaf
    lastOp,     \* history: the last operation and, for add, the root before it
    proof,      \* the result of the last generate_proof call
    holder,     \* MerkleTreeService.tree: the thread holding the mutex, or 0
    poisoned,   \* MerkleTreeService.tree: a thread panicked holding the mutex
    pc,         \* per request thread: "idle", "parse", "lock", "inside", "build",
                \* "done"
    req,        \* per request thread: the operation called and its argument
    ret,        \* per request thread: what its last call returned
    calls,      \* the number of calls made so far
    circuit     \* the MerkleCircuit last handed to the prover and its cells

treeVars == <<leaves, levels, depth>>
histVars == <<seedIn, added, placed, nextFree, lastOp>>
svcVars == <<holder, poisoned, pc, req, ret, calls>>
vars == <<leaves, levels, depth, panicked, seedIn, added, placed, nextFree,
          lastOp, proof, holder, poisoned, pc, req, ret, calls, circuit>>

Threads == {1, 2}

\* format!("{:?}", root): the field element written as 0x and its 64 hex digits.
FormatFp(x) == <<"0x", x>>

NoReq == [op |-> "none", value |-> 0, hex |-> <<>>]
NoRet ==
    [kind |-> "none", proof |-> FALSE, root |-> FpZero, known |-> FALSE,
     ran |-> FALSE, appends |-> 0]

InitService ==
    /\ holder = 0
    /\ poisoned = FALSE
    /\ pc = [t \in Threads |-> "idle"]
    /\ req = [t \in Threads |-> NoReq]
    /\ ret = [t \in Threads |-> NoRet]
    /\ calls = 0

NoOp(name) ==
    [name |-> name, prevRoot |-> FpZero, prevDepth |-> 0, index |-> 0,
     prevLeaves |-> <<>>, leaf |-> FpZero]

InitTree(seed) ==
    LET t == New(seed)
    IN  /\ leaves = t.leaves
        /\ levels = t.levels
        /\ depth = t.depth
        /\ panicked = ~t.ok
        /\ seedIn = seed
        /\ added = <<>>
        /\ placed = {<<j - 1, ConvertLeaf(seed[j])>> : j \in 1..Len(seed)}
        /\ nextFree = Len(seed)
        /\ lastOp = NoOp("new")
        /\ proof = NoProof("None")

Seeds == UNION {[1..n -> LeafInputs] : n \in 0..MaxSeedLen}

Init == InitService /\ circuit = NoCircuit /\ \E seed \in Seeds : InitTree(seed)

\* tree.add(leaf)
Add(leaf) ==
    /\ ~panicked
    /\ Len(added) < MaxAdds
    /\ LET t == AddLeaf(leaves, leaf)
           at == Len(StripTrailingZeros(leaves))
       IN  /\ leaves' = t.leaves
           /\ levels' = t.levels
           /\ depth' = t.depth
           /\ panicked' = ~t.ok
           /\ placed' = placed \cup {<<at, ConvertLeaf(leaf)>>}
           /\ nextFree' = at + 1
           /\ lastOp' = [name |-> "add", prevRoot |-> Root(levels),
                         prevDepth |-> depth, index |-> at,
                         prevLeaves |-> leaves, leaf |-> ConvertLeaf(leaf)]
    /\ added' = Append(added, leaf)
    /\ proof' = NoProof("None")
    /\ UNCHANGED <<seedIn, svcVars, circuit>>

\* tree.generate_proof(leaf_index)
Prove(leaf_index) ==
    /\ ~panicked
    /\ LET p == GenerateProof(leaves, levels, depth, leaf_index)
       IN  /\ proof' = p
           /\ panicked' = (p.kind = "Panic")
    /\ lastOp' = [NoOp("generate_proof") EXCEPT !.index = leaf_index]
    /\ UNCHANGED <<leaves, levels, depth, seedIn, added, placed, nextFree, svcVars,
                   circuit>>

Next ==
    \/ \E leaf \in LeafInputs : Add(leaf)
    \/ \E leaf_index \in 0..(Len(leaves) + 1) : Prove(leaf_index)

Spec == Init /\ [][Next]_vars

\* ------------------------------------------------------ MerkleTreeService
\* MerkleTreeService::new: the default tree.
ServiceSeed ==
    <<Unhashed(10), Unhashed(20), Unhashed(30), Unhashed(40),
      Unhashed(50), Unhashed(60), Unhashed(70), Unhashed(80)>>

\* The values the handlers are called with.
AddValues == {0, 90, 91}
ProofValues == {0, 1, 10, 90}

\* A commitment string as the sequence of its characters, a hex digit written
\* as its value 0..15 and any other character as 16.
HexLen == 64
NotHex == 16

PadHex(s) == s \o [i \in 1..(HexLen - Len(s)) |-> 0]

\* The byte at 0-based position i of the decoded string.
ByteAt(hex, i) == hex[2 * i + 1] * 16 + hex[2 * i + 2]

\* The field modulus as 32 bytes, most significant first.
ModulusBytes ==
    <<64, 0, 0, 0, 0, 0, 0, 0, 0, 0, 0, 0, 0, 0, 0, 0,
      34, 70, 152, 252, 9, 76, 249, 27, 153, 45, 48, 237, 0, 0, 0, 1>>

\* The little-endian bytes of hex encode a number below the modulus.
Canonical(hex) ==
    \E j \in 1..32 :
        /\ ByteAt(hex, 32 - j) < ModulusBytes[j]
        /\ \A i \in 1..(j - 1) : ByteAt(hex, 32 - i) = ModulusBytes[i]

\* The field element of a canonical encoding: Fp::from(n) for n below 2^16.
FpFromBytes(hex) ==
    IF \A i \in 2..31 : ByteAt(hex, i) = 0
    THEN FpFrom(ByteAt(hex, 0) + 256 * ByteAt(hex, 1))
    ELSE <<"fp", hex>>

\* parse_fp_hex: exactly 64 hex characters that decode to a canonical
\* little-endian field element, or None.
ParseFpHex(hex) ==
    IF Len(hex) # HexLen \/ \E i \in 1..Len(hex) : hex[i] = NotHex
    THEN [kind |-> "None", fp |-> FpZero]
    ELSE IF ~Canonical(hex) THEN [kind |-> "None", fp |-> FpZero]
         ELSE [kind |-> "Some", fp |-> FpFromBytes(hex)]

\* "deadbeef", a 64-character string with a letter that is no hex digit, the
\* 64-character encoding of 2^256 - 1, and the encoding of 999.
RegisterInputs ==
    {<<13, 14, 10, 13, 11, 14, 14, 15>>,
     [PadHex(<<14, 7, 0, 3>>) EXCEPT ![1] = NotHex],
     [i \in 1..HexLen |-> 15],
     PadHex(<<14, 7, 0, 3>>)}

Requests ==
    {[op |-> "add_to_tree", value |-> v, hex |-> <<>>] : v \in AddValues}
        \cup {[op |-> "zk_proof", value |-> v, hex |-> <<>>] : v \in ProofValues}
        \cup {[op |-> "visualize_tree", value |-> 0, hex |-> <<>>]}
        \cup {[op |-> "register", value |-> 0, hex |-> h] : h \in RegisterInputs}

\* The leaf a request appends: add_to_tree(value) gives an Unhashed value,
\* register_commitment(commitment) a Hashed field element.
RequestLeaf(r) ==
    IF r.op = "register" THEN Hashed(ParseFpHex(r.hex).fp) ELSE Unhashed(r.value)

\* v was a seed leaf of the service's tree or has been added to it.
IsRegistered(v) ==
    \/ \E j \in 1..Len(seedIn) : seedIn[j].kind = "Unhashed" /\ seedIn[j].val = v
    \/ \E j \in 1..Len(added) : added[j].kind = "Unhashed" /\ added[j].val = v

ServiceInit == InitService /\ circuit = NoCircuit /\ InitTree(ServiceSeed)

\* A handler is dispatched on a request thread.
Call(t, r) ==
    /\ pc[t] \in {"idle", "done"}
    /\ calls < MaxCalls
    /\ pc' = [pc EXCEPT ![t] = IF r.op = "register" THEN "parse" ELSE "lock"]
    /\ req' = [req EXCEPT ![t] = r]
    /\ ret' = [ret EXCEPT ![t] = NoRet]
    /\ calls' = calls + 1
    /\ UNCHANGED <<treeVars, histVars, panicked, proof, holder, poisoned, circuit>>

\* Mutant: the handler goes on to the service whatever the parser said.
RegisterUnchecked(t) ==
    /\ pc[t] = "parse"
    /\ pc' = [pc EXCEPT ![t] = "lock"]
    /\ UNCHANGED <<treeVars, histVars, panicked, proof, holder, poisoned, req,
                   ret, calls, circuit>>

\* The register handler: parse the commitment; on None answer 400 without
\* touching the service, on Some go on to register_commitment.
Register(t) ==
    /\ pc[t] = "parse"
    /\ IF ParseFpHex(req[t].hex).kind = "None"
       THEN /\ pc' = [pc EXCEPT ![t] = "done"]
            /\ ret' = [ret EXCEPT ![t] = [NoRet EXCEPT !.kind = "bad_request"]]
       ELSE /\ pc' = [pc EXCEPT ![t] = "lock"]
            /\ UNCHANGED ret
    /\ UNCHANGED <<treeVars, histVars, panicked, proof, holder, poisoned, req,
                   calls, circuit>>

\* Mutant: a poisoned mutex is entered all the same.
AcquireIgnoringPoison(t) ==
    /\ pc[t] = "lock"
    /\ holder = 0
    /\ pc' = [pc EXCEPT ![t] = "inside"]
    /\ holder' = t
    /\ UNCHANGED <<treeVars, histVars, panicked, proof, poisoned, req, ret, calls,
                   circuit>>

\* Mutant: the closure runs without waiting for the mutex.
AcquireNoExclusion(t) ==
    /\ pc[t] = "lock"
    /\ pc' = [pc EXCEPT ![t] = "inside"]
    /\ holder' = t
    /\ UNCHANGED <<treeVars, histVars, panicked, proof, poisoned, req, ret, calls,
                   circuit>>

\* with_tree / with_tree_mut: self.tree.lock().unwrap().  On a poisoned mutex
\* lock() gives Err, unwrap panics and the guard inside the error is dropped.
Acquire(t) ==
    /\ pc[t] = "lock"
    /\ holder = 0
    /\ IF poisoned
       THEN /\ pc' = [pc EXCEPT ![t] = "done"]
            /\ ret' = [ret EXCEPT ![t] =
                          [NoRet EXCEPT !.kind = "panic",
                                        !.known = IsRegistered(req[t].value),
                                        !.appends = Len(added)]]
            /\ UNCHANGED holder
       ELSE /\ pc' = [pc EXCEPT ![t] = "inside"]
            /\ holder' = t
            /\ UNCHANGED ret
    /\ UNCHANGED <<treeVars, histVars, panicked, proof, poisoned, req, calls,
                   circuit>>

\* Mutant: the leaf is pushed on the seed leaves, losing earlier appends.
AddLeavesFromSeed(t) ==
    /\ pc[t] = "inside"
    /\ req[t].op \in {"add_to_tree", "register"}
    /\ LET leaf == RequestLeaf(req[t])
           at == Len(StripTrailingZeros(leaves))
       IN  /\ leaves' = AddLeaf(New(seedIn).leaves, leaf).leaves
           /\ added' = Append(added, leaf)
           /\ placed' = placed \cup {<<at, ConvertLeaf(leaf)>>}
           /\ nextFree' = at + 1
           /\ lastOp' = [name |-> "add", prevRoot |-> Root(levels),
                         prevDepth |-> depth, index |-> at,
                         prevLeaves |-> leaves, leaf |-> ConvertLeaf(leaf)]
    /\ ret' = [ret EXCEPT ![t].appends = Len(added) + 1, ![t].ran = TRUE]
    /\ pc' = [pc EXCEPT ![t] = "build"]
    /\ UNCHANGED <<levels, depth, seedIn, panicked, proof, holder, poisoned,
                   req, calls, circuit>>

\* add_to_tree and register_commitment, first half of tree.add: strip, push
\* and pad leaves.
AddLeaves(t) ==
    /\ pc[t] = "inside"
    /\ req[t].op \in {"add_to_tree", "register"}
    /\ LET leaf == RequestLeaf(req[t])
           at == Len(StripTrailingZeros(leaves))
       IN  /\ leaves' = AddLeaf(leaves, leaf).leaves
           /\ added' = Append(added, leaf)
           /\ placed' = placed \cup {<<at, ConvertLeaf(leaf)>>}
           /\ nextFree' = at + 1
           /\ lastOp' = [name |-> "add", prevRoot |-> Root(levels),
                         prevDepth |-> depth, index |-> at,
                         prevLeaves |-> leaves, leaf |-> ConvertLeaf(leaf)]
    /\ ret' = [ret EXCEPT ![t].appends = Len(added) + 1, ![t].ran = TRUE]
    /\ pc' = [pc EXCEPT ![t] = "build"]
    /\ UNCHANGED <<levels, depth, seedIn, panicked, proof, holder, poisoned,
                   req, calls, circuit>>

\* add_to_tree, second half: recalculate depth, build, read the root, return
\* and drop the guard (poisoning the mutex when build panicked).
AddBuild(t) ==
    /\ pc[t] = "build"
    /\ LET d == DepthOf(Len(leaves))
           built == Build(leaves, d)
       IN  /\ depth' = d
           /\ levels' = built.levels
           /\ poisoned' = (poisoned \/ ~built.ok \/ ~RootOk(built.levels))
           /\ ret' = [ret EXCEPT ![t] =
                         IF built.ok /\ RootOk(built.levels)
                         THEN [ret[t] EXCEPT !.kind = "root",
                                             !.root = FormatFp(Root(built.levels))]
                         ELSE [ret[t] EXCEPT !.kind = "panic"]]
    /\ holder' = 0
    /\ pc' = [pc EXCEPT ![t] = "done"]
    /\ UNCHANGED <<leaves, histVars, panicked, proof, req, calls, circuit>>

\* Mutant: the guard is not dropped when the closure returns.
ZkProofBodyKeepsLock(t) ==
    /\ pc[t] = "inside"
    /\ req[t].op = "zk_proof"
    /\ LET r == ZkProof(leaves, levels, depth, req[t].value)
           w == ZkCircuit(leaves, levels, depth, req[t].value)
       IN  /\ ret' = [ret EXCEPT ![t] =
                         [NoRet EXCEPT !.kind = r.kind, !.proof = r.proof,
                                       !.known = IsRegistered(req[t].value),
                                       !.ran = TRUE, !.appends = Len(added)]]
           /\ poisoned' = (poisoned \/ r.kind = "panic")
           /\ circuit' = IF w.kind = "panic" THEN circuit
                         ELSE Proved(req[t].value, w.leaf, w.siblings,
                                     w.directions, w.root)
    /\ UNCHANGED holder
    /\ pc' = [pc EXCEPT ![t] = "done"]
    /\ UNCHANGED <<treeVars, histVars, panicked, proof, req, calls>>

\* zk_proof: the closure under with_tree, then the guard is dropped (poisoning
\* the mutex when the closure panicked).
ZkProofBody(t) ==
    /\ pc[t] = "inside"
    /\ req[t].op = "zk_proof"
    /\ LET r == ZkProof(leaves, levels, depth, req[t].value)
           w == ZkCircuit(leaves, levels, depth, req[t].value)
       IN  /\ ret' = [ret EXCEPT ![t] =
                         [NoRet EXCEPT !.kind = r.kind, !.proof = r.proof,
                                       !.known = IsRegistered(req[t].value),
                                       !.ran = TRUE, !.appends = Len(added)]]
           /\ poisoned' = (poisoned \/ r.kind = "panic")
           /\ circuit' = IF w.kind = "panic" THEN circuit
                         ELSE Proved(req[t].value, w.leaf, w.siblings,
                                     w.directions, w.root)
    /\ holder' = 0
    /\ pc' = [pc EXCEPT ![t] = "done"]
    /\ UNCHANGED <<treeVars, histVars, panicked, proof, req, calls>>

\* visualize_tree: generate_tree_image under with_tree; the tree is only read.
VisualizeBody(t) ==
    /\ pc[t] = "inside"
    /\ req[t].op = "visualize_tree"
    /\ ret' = [ret EXCEPT ![t] = [NoRet EXCEPT !.kind = "image"]]
    /\ holder' = 0
    /\ pc' = [pc EXCEPT ![t] = "done"]
    /\ UNCHANGED <<treeVars, histVars, panicked, proof, poisoned, req, calls,
                   circuit>>

ServiceNext ==
    \E t \in Threads :
        \/ \E r \in Requests : Call(t, r)
        \/ Register(t)
        \/ Acquire(t)
        \/ AddLeaves(t)
        \/ AddBuild(t)
        \/ ZkProofBody(t)
        \/ VisualizeBody(t)

ServiceSpec == ServiceInit /\ [][ServiceNext]_vars

\* One step of the handler running on thread t.
Step(t) ==
    \/ Register(t)
    \/ Acquire(t)
    \/ AddLeaves(t)
    \/ AddBuild(t)
    \/ ZkProofBody(t)
    \/ VisualizeBody(t)

\* Thread t can take a step: it is parsing or inside its critical section,
\* or it is in lock() and the mutex is free.  This is ENABLED <<Step(t)>>_vars.
Runnable(t) ==
    \/ pc[t] \in {"parse", "inside", "build"}
    \/ pc[t] = "lock" /\ holder = 0

\* WF_vars(Step(t)) with the enabling condition written out: a dispatched
\* handler is not suspended for ever, and a lock() that finds the mutex free
\* for good returns.
ServiceFairness ==
    \A t \in Threads : []<>~Runnable(t) \/ []<><<Step(t)>>_vars

ServiceFairSpec == ServiceSpec /\ ServiceFairness

\* ------------------------------------------------- MerkleCircuit under test
\* The witnesses and public inputs a circuit is built with.
CircuitLeaves == {FpFrom(10), FpFrom(20)}
CircuitSiblings == [1..DEPTH -> {FpFrom(10), FpFrom(30)}]
CircuitDirections == [1..DEPTH -> {FpZero, FpOne, FpFrom(2)}]
BinaryDirections == [1..DEPTH -> {FpZero, FpOne}]

\* The public inputs tried with a witness: the roots of the paths that share
\* its siblings.
CircuitRoots(siblings) ==
    {Synthesize(l, siblings, d, 1, <<>>).out :
        l \in CircuitLeaves, d \in BinaryDirections}

\* The trees of depth DEPTH whose proofs are handed to the circuit.
DepthSeeds == [1..Pow2(DEPTH) -> {Unhashed(10), Unhashed(30)}]

TreeWitnesses ==
    {GenerateProof(New(seed).leaves, New(seed).levels, New(seed).depth, i) :
        seed \in DepthSeeds, i \in 0..(Pow2(DEPTH) - 1)}

CircuitInit ==
    /\ InitService
    /\ InitTree(ServiceSeed)
    /\ \/ \E l \in CircuitLeaves, s \in CircuitSiblings, d \in CircuitDirections :
            \E r \in CircuitRoots(s) : circuit = NewCircuit(0, l, s, d, r)
       \/ \E p \in TreeWitnesses :
            circuit = NewCircuit(0, p.leaf, p.siblings, p.directions, p.root)

\* MockProver::run(8, &circuit, vec![vec![root]]) and verify().
RunProver ==
    /\ circuit.status = "new"
    /\ circuit' = Proved(circuit.secret, circuit.leaf, circuit.siblings,
                         circuit.directions, circuit.root)
    /\ UNCHANGED <<treeVars, histVars, panicked, proof, svcVars>>

\* The same leaf, siblings and root with the direction bit of level k flipped,
\* proved again.
FlipDirection(k) ==
    /\ circuit.status = "proved"
    /\ circuit.directions[k] \in {FpZero, FpOne}
    /\ LET d == [circuit.directions EXCEPT
                    ![k] = IF @ = FpZero THEN FpOne ELSE FpZero]
       IN  circuit' = [Proved(circuit.secret, circuit.leaf, circuit.siblings, d,
                              circuit.root) EXCEPT
                          !.status = "flipped", !.prevOk = circuit.ok,
                          !.flipped = k]
    /\ UNCHANGED <<treeVars, histVars, panicked, proof, svcVars>>

\* The values a prover may put in the cur cell of a level's swap row.
CurCells ==
    CircuitLeaves \cup
        {PoseidonHash(a, b) : a \in CircuitLeaves, b \in {FpFrom(10), FpFrom(30)}}

\* A prover that fills the cells itself: the leaf cell, sibling and direction
\* cells from the witness, any value in each row's cur cell, left and right in
\* either order.
Forge(curs, crossed) ==
    /\ circuit.status = "new"
    /\ LET row(i) ==
               LET r == SwapRow(curs[i], circuit.siblings[i], circuit.directions[i])
               IN  IF crossed[i]
                   THEN [r EXCEPT !.left = r.right, !.right = r.left]
                   ELSE r
           cells == [i \in 1..DEPTH |-> row(i)]
       IN  circuit' = [circuit EXCEPT !.status = "forged",
                                      !.leafCell = circuit.leaf,
                                      !.cells = cells,
                                      !.ok = Satisfies(cells, circuit.root)]
    /\ UNCHANGED <<treeVars, histVars, panicked, proof, svcVars>>

CircuitNext ==
    \/ RunProver
    \/ \E k \in 1..DEPTH : FlipDirection(k)
    \/ \E curs \in [1..DEPTH -> CurCells], crossed \in [1..DEPTH -> BOOLEAN] :
            Forge(curs, crossed)

CircuitSpec == CircuitInit /\ [][CircuitNext]_vars

\* ------------------------------------------------------- claims on the tree
IsPowerOfTwo(n) == \E k \in 0..n : Pow2(k) = n

\* C1: after new and any adds, leaves.len() is a power of two that is at least 1
\* and depth() is its base-2 logarithm (2^depth = leaves.len()).
C1_PowerOfTwoDepth ==
    /\ Len(leaves) >= 1
    /\ IsPowerOfTwo(Len(leaves))
    /\ Pow2(depth) = Len(leaves)

\* An add has grown the tree to eight leaves and depth three.
C1_Witness == lastOp.name = "add" /\ Len(leaves) = 8 /\ depth = 3

\* C2: levels has depth+1 entries, levels[0] is leaves, level k has
\* leaves.len()/2^k elements, each of them the hash of its two children, and
\* root() is the single element of the last level.
C2_LevelStructure ==
    /\ Len(levels) = depth + 1
    /\ levels[1] = leaves
    /\ \A k \in 1..depth :
        /\ Len(levels[k + 1]) * Pow2(k) = Len(leaves)
        /\ \A i \in 1..Len(levels[k + 1]) :
            levels[k + 1][i] =
                PoseidonHash(levels[k][2 * i - 1], levels[k][2 * i])
    /\ Len(levels[depth + 1]) = 1
    /\ RootOk(levels)
    /\ Root(levels) = levels[depth + 1][1]

\* An add has rebuilt a tree of three hash levels over two different leaves.
C2_Witness ==
    /\ lastOp.name = "add"
    /\ depth = 3
    /\ Len(levels) = 4
    /\ levels[1][1] # levels[1][2]

\* C3: every leaf position at or after the index following the last supplied
\* (seeded or appended) value holds the field element 0.
C3_PaddingIsZero ==
    \A j \in nextFree..(Len(leaves) - 1) : leaves[j + 1] = FpZero

\* An add stored a non-zero leaf and left at least two padding positions.
C3_Witness ==
    /\ lastOp.name = "add"
    /\ leaves[nextFree] # FpZero
    /\ nextFree + 2 <= Len(leaves)

\* The fold of invariant P1: H(current, sibling) when the direction is 0,
\* H(sibling, current) when it is 1.
RECURSIVE FoldPath(_, _, _, _)
FoldPath(current, siblings, directions, k) ==
    IF k > Len(siblings) THEN current
    ELSE FoldPath(IF directions[k] = FpZero
                  THEN PoseidonHash(current, siblings[k])
                  ELSE PoseidonHash(siblings[k], current),
                  siblings, directions, k + 1)

\* C4: for every index below num_leaves(), folding the proof's leaf with its
\* siblings and directions gives proof.root, which is root().
C4_ProofFolds ==
    /\ \A i \in 0..(Len(leaves) - 1) :
        LET p == GenerateProof(leaves, levels, depth, i)
        IN  /\ p.kind = "Some"
            /\ FoldPath(p.leaf, p.siblings, p.directions, 1) = p.root
            /\ p.root = Root(levels)
    /\ proof.kind = "Some" =>
        FoldPath(proof.leaf, proof.siblings, proof.directions, 1) = Root(levels)

\* generate_proof returned a three-level proof whose path turns right and left.
C4_Witness ==
    /\ lastOp.name = "generate_proof"
    /\ proof.kind = "Some"
    /\ Len(proof.siblings) = 3
    /\ proof.directions[1] = FpOne
    /\ proof.directions[2] = FpZero
    /\ proof.leaf # FpZero

\* C5: generate_proof(i) is None exactly when i >= num_leaves(); below that it
\* is Some and no index it reads is out of bounds (it never panics).
C5_NoneIffOutOfRange ==
    /\ ~panicked
    /\ \A i \in 0..(Len(leaves) + 1) :
        LET p == GenerateProof(leaves, levels, depth, i)
        IN  /\ p.kind # "Panic"
            /\ (p.kind = "None") <=> (i >= Len(leaves))
    /\ lastOp.name = "generate_proof" =>
        ((proof.kind = "None") <=> (lastOp.index >= Len(leaves)))

\* generate_proof was called with the first index out of range, on four leaves.
C5_Witness ==
    /\ lastOp.name = "generate_proof"
    /\ lastOp.index = Len(leaves)
    /\ Len(leaves) = 4
    /\ proof.kind = "None"

C7_NoLeafDeletedOrUpdated ==
    /\ \A pl \in placed : pl[1] < Len(leaves) /\ leaves[pl[1] + 1] = pl[2]
    /\ \A a \in 1..Len(added) :
        \E j \in 1..Len(leaves) : leaves[j] = ConvertLeaf(added[a])

\* C8: root() after add(v) differs from root() before it, for every value v.
C8_RootChangesAfterAdd ==
    lastOp.name = "add" => Root(levels) # lastOp.prevRoot

\* ---------------------------------------------------- claims on the service
\* C9: zk_proof(v) returns proof = true whenever v is a seed leaf of the
\* service's tree or was added by add_to_tree(v) before.
C9_MembershipProvable ==
    \A t \in Threads :
        (pc[t] = "done" /\ req[t].op = "zk_proof" /\ ret[t].known) =>
            (ret[t].kind = "proof" /\ ret[t].proof)

\* C10: zk_proof(v) returns proof = false for every v that was never a seed
\* leaf and never added, v = 0 and v = 1 included.  Stated for the calls whose
\* closure ran, that is, that found the mutex unpoisoned.
C10_NonMembershipRejected ==
    \A t \in Threads :
        (/\ pc[t] = "done"
         /\ req[t].op = "zk_proof"
         /\ ret[t].ran
         /\ ~IsRegistered(req[t].value)) =>
            (ret[t].kind = "proof" /\ ~ret[t].proof)

\* ---------------------------------------------------- claims on the circuit
\* C11: the node entering level 0 of the circuit's path is Poseidon2(secret, 0)
\* and the leaf is looked up by that commitment, so that zk_proof(s) = true
\* implies Poseidon2(s, 0) is a leaf of the tree.
C11_BoundToCommitment ==
    circuit.status = "proved" =>
        /\ circuit.cells[1].cur = PoseidonHash(FpFrom(circuit.secret), FpZero)
        /\ circuit.ok =>
               \E j \in 1..Len(leaves) :
                   leaves[j] = PoseidonHash(FpFrom(circuit.secret), FpZero)

Ran == circuit.status \in {"proved", "flipped", "forged"}

\* C12: whatever the witness and the public root, a circuit with a direction
\* cell holding a field element other than 0 and 1 does not verify.
C12_DirectionBinarity ==
    (Ran /\ \E k \in 1..DEPTH : circuit.cells[k].dir \notin {FpZero, FpOne}) =>
        ~circuit.ok

\* The prover ran on a witness whose level-0 direction is 2 and whose hashes
\* reach the public root: only the binarity constraint rejects it.
C12_Witness ==
    /\ circuit.status = "proved"
    /\ circuit.directions[1] = FpFrom(2)
    /\ PoseidonHash(circuit.cells[DEPTH].left, circuit.cells[DEPTH].right)
           = circuit.root
    /\ ~circuit.ok

\* C13 as stated: a witness that verifies against R fails to verify once
\* exactly one direction bit is flipped, leaf, siblings and R kept.
C13_FlipFails ==
    (circuit.status = "flipped" /\ circuit.prevOk) => ~circuit.ok

\* C13: a witness that verifies against R fails to verify once the direction
\* bit of a level whose current node differs from its sibling is flipped,
\* leaf, siblings and R kept.
C13_FlipFailsUnlessEqual ==
    (/\ circuit.status = "flipped"
     /\ circuit.prevOk
     /\ circuit.cells[circuit.flipped].cur
            # circuit.cells[circuit.flipped].sibling) => ~circuit.ok

\* A verifying witness was proved again with the bit of level 2 flipped, where
\* node and sibling differ, and was rejected.
C13_Witness ==
    /\ circuit.status = "flipped"
    /\ circuit.prevOk
    /\ circuit.flipped = DEPTH
    /\ circuit.cells[DEPTH].cur # circuit.cells[DEPTH].sibling
    /\ ~circuit.ok

\* C14: every assignment of the cells that satisfies the emitted constraints
\* has its public input equal to the fold of the leaf cell along the sibling
\* and direction cells, each level's cur cell being the hash output below it.
C14_Soundness ==
    (Ran /\ circuit.ok) =>
        /\ circuit.root =
               FoldPath(circuit.leafCell,
                        [i \in 1..DEPTH |-> circuit.cells[i].sibling],
                        [i \in 1..DEPTH |-> circuit.cells[i].dir], 1)
        /\ circuit.cells[1].cur = circuit.leafCell
        /\ \A k \in 1..(DEPTH - 1) :
               circuit.cells[k + 1].cur =
                   PoseidonHash(circuit.cells[k].left, circuit.cells[k].right)

\* C15: a circuit witnessed with a leaf, siblings and directions that are all
\* 0 or 1 verifies against the fold of the leaf along them; so does every
\* proof generate_proof gives on a tree of depth DEPTH.
C15_Completeness ==
    circuit.status \in {"proved", "flipped"} =>
        /\ (/\ \A k \in 1..DEPTH : circuit.directions[k] \in {FpZero, FpOne}
            /\ circuit.root = FoldPath(circuit.leaf, circuit.siblings,
                                       circuit.directions, 1)) => circuit.ok
        /\ (\E p \in TreeWitnesses :
                /\ p.leaf = circuit.leaf
                /\ p.siblings = circuit.siblings
                /\ p.directions = circuit.directions
                /\ p.root = circuit.root) => circuit.ok

\* The proof of the second leaf of a depth-DEPTH tree, whose path turns right
\* then left, verified.
C15_Witness ==
    /\ circuit.status = "proved"
    /\ circuit.ok
    /\ circuit.directions[1] = FpOne
    /\ circuit.directions[DEPTH] = FpZero
    /\ circuit.leaf = FpFrom(30)

\* --------------------------------------------------- claims on registration
\* C16: a register call whose commitment string fails to parse reports an
\* error, never reaches the tree, and its steps leave leaves, levels, depth
\* (hence the root) and the appended values as they were.
C16_InvalidCommitmentUntouched ==
    [][\A t \in Threads :
          (/\ req'[t].op = "register"
           /\ ParseFpHex(req'[t].hex).kind = "None"
           /\ pc'[t] # pc[t]) =>
              /\ pc'[t] \in {"parse", "done"}
              /\ pc'[t] = "done" => ret'[t].kind = "bad_request"
              /\ UNCHANGED <<leaves, levels, depth, added>>]_vars

\* register("deadbeef") was answered with an error on a tree that another
\* call had appended to.
C16_Witness ==
    \E t \in Threads :
        /\ pc[t] = "done"
        /\ req[t].op = "register"
        /\ Len(req[t].hex) = 8
        /\ ret[t].kind = "bad_request"
        /\ Len(added) = 1

\* --------------------------------------------------- claims on concurrency
\* The tree after the first n appends, each one complete.
RECURSIVE Replay(_, _, _)
Replay(tree, adds, n) ==
    IF n = 0 THEN tree
    ELSE AddLeaf(Replay(tree, adds, n - 1).leaves, adds[n])

AfterAppends(n) == Replay(New(seedIn), added, n)

\* C17: whenever a caller is inside with_tree or with_tree_mut and has not yet
\* written, and whenever the lock is free, leaves, levels and depth are those
\* of the tree after all the appends made so far, each complete, and I1-I3
\* hold; at most one caller is inside at a time.
C17_NoTornReads ==
    /\ \A t, u \in Threads :
           (pc[t] \in {"inside", "build"} /\ pc[u] \in {"inside", "build"}) => t = u
    /\ (holder = 0 \/ \E t \in Threads : pc[t] = "inside") =>
           /\ leaves = AfterAppends(Len(added)).leaves
           /\ levels = AfterAppends(Len(added)).levels
           /\ depth = AfterAppends(Len(added)).depth
           /\ C1_PowerOfTwoDepth
           /\ C2_LevelStructure
           /\ C3_PaddingIsZero

\* A zk_proof caller is inside the critical section after a complete append
\* while an add_to_tree caller waits for the lock.
C17_Witness ==
    \E t, u \in Threads :
        /\ pc[t] = "inside"
        /\ req[t].op = "zk_proof"
        /\ pc[u] = "lock"
        /\ req[u].op = "add_to_tree"
        /\ Len(added) = 1

\* C18: when every appended value is non-zero, the non-padding leaves are the
\* seed leaves followed by the appended values in the order the calls took the
\* lock, and every finished add_to_tree that took the lock returned the root
\* of the tree as it was right after its own append.
C18_AppendsSerialized ==
    (\A a \in 1..Len(added) : ConvertLeaf(added[a]) # FpZero) =>
        /\ (\A t \in Threads : pc[t] # "build") =>
               StripTrailingZeros(leaves) =
                   [j \in 1..Len(seedIn) |-> ConvertLeaf(seedIn[j])]
                       \o [a \in 1..Len(added) |-> ConvertLeaf(added[a])]
        /\ \A t \in Threads :
               (/\ pc[t] = "done"
                /\ req[t].op = "add_to_tree"
                /\ ret[t].ran) =>
                   /\ ret[t].kind = "root"
                   /\ ret[t].root =
                          FormatFp(Root(AfterAppends(ret[t].appends).levels))

\* Two add_to_tree calls with different values have finished, thread 1 having
\* taken the lock second.
C18_Witness ==
    /\ pc[1] = "done" /\ req[1] = [op |-> "add_to_tree", value |-> 91, hex |-> <<>>]
    /\ pc[2] = "done" /\ req[2] = [op |-> "add_to_tree", value |-> 90, hex |-> <<>>]
    /\ ret[1].appends = 2
    /\ ret[2].appends = 1
    /\ added = <<Unhashed(90), Unhashed(91)>>

\* C19 (idempotence): two finished zk_proof(v) calls with the same v and no
\* append between them gave the same result.
C19_ProvingIdempotent ==
    \A t, u \in Threads :
        (/\ pc[t] = "done" /\ req[t].op = "zk_proof"
         /\ pc[u] = "done" /\ req[u].op = "zk_proof"
         /\ req[t].value = req[u].value
         /\ ret[t].appends = ret[u].appends) =>
            (ret[t].kind = ret[u].kind /\ ret[t].proof = ret[u].proof)

\* ------------------------------------------------------- claims on growth
AllNonZero ==
    /\ \A j \in 1..Len(seedIn) : ConvertLeaf(seedIn[j]) # FpZero
    /\ \A a \in 1..Len(added) : ConvertLeaf(added[a]) # FpZero

\* C21 as stated: with every seeded and appended value non-zero, after n adds
\* on a tree seeded with m leaves num_leaves() is next_power_of_two(m + n) and
\* depth() its base-2 logarithm.
C21_Growth ==
    AllNonZero =>
        /\ Len(leaves) = NextPowerOfTwo(Len(seedIn) + Len(added))
        /\ Pow2(depth) = Len(leaves)

\* C21: the same for a tree seeded with at least one leaf.
C21_GrowthFromSeed ==
    (AllNonZero /\ Len(seedIn) >= 1) =>
        /\ Len(leaves) = NextPowerOfTwo(Len(seedIn) + Len(added))
        /\ Pow2(depth) = Len(leaves)

\* Two non-zero seeds and one non-zero add gave 4 leaves and depth 2, and a
\* further add kept them; then a third add crossed to 8 leaves.
C21_Witness ==
    /\ AllNonZero
    /\ Len(seedIn) = 2
    /\ Len(added) = 3
    /\ lastOp.name = "add"
    /\ lastOp.prevDepth = 2
    /\ depth = 3
    /\ Len(leaves) = 8

\* The index of the sibling of node x in its level: x XOR 1.
Xor1(x) == IF x % 2 = 0 THEN x + 1 ELSE x - 1

\* A proof p is the path of leaf i: the leaf, and per level k the bit k of i
\* and the node of level k at position (i div 2^k) XOR 1.
IsPathOf(p, i) ==
    /\ p.kind = "Some"
    /\ p.leaf = leaves[i + 1]
    /\ Len(p.siblings) = depth
    /\ Len(p.directions) = depth
    /\ \A k \in 0..(depth - 1) :
           /\ p.directions[k + 1] = FpFrom((i \div Pow2(k)) % 2)
           /\ p.siblings[k + 1] = levels[k + 1][Xor1(i \div Pow2(k)) + 1]

\* C22: for every i below num_leaves(), generate_proof(i) gives leaves[i],
\* depth() siblings and directions from leaf to root, directions[k] being bit
\* k of i and siblings[k] being levels[k][(i div 2^k) XOR 1].
C22_ProofShape ==
    /\ \A i \in 0..(Len(leaves) - 1) :
           IsPathOf(GenerateProof(leaves, levels, depth, i), i)
    /\ (lastOp.name = "generate_proof" /\ lastOp.index < Len(leaves)) =>
           IsPathOf(proof, lastOp.index)

\* generate_proof(5) on eight leaves: bits 1, 0, 1 from leaf to root.
C22_Witness ==
    /\ lastOp.name = "generate_proof"
    /\ lastOp.index = 5
    /\ Len(leaves) = 8
    /\ proof.kind = "Some"
    /\ proof.directions = <<FpOne, FpZero, FpOne>>

\* The leaves add leaves behind, after the spec's words: strip trailing zeros
\* while more than one leaf is left, push v, pad with zeros to a power of two.
RECURSIVE Strip(_)
Strip(s) ==
    IF Len(s) <= 1 \/ s[Len(s)] # FpZero THEN s
    ELSE Strip([j \in 1..(Len(s) - 1) |-> s[j]])

Pad(s) == s \o [j \in 1..(NextPowerOfTwo(Len(s)) - Len(s)) |-> FpZero]

\* C23: add(v) sets leaves to pad(strip(old leaves) ++ [v]); on the tree [0]
\* that is [0, v]; and every level is rebuilt from the new leaves.
C23_AddStripsPushesPads ==
    lastOp.name = "add" =>
        /\ leaves = Pad(Append(Strip(lastOp.prevLeaves), lastOp.leaf))
        /\ lastOp.prevLeaves = <<FpZero>> => leaves = <<FpZero, lastOp.leaf>>
        /\ C2_LevelStructure

\* add(v) with v non-zero on the tree [0].
C23_Witness ==
    /\ lastOp.name = "add"
    /\ lastOp.prevLeaves = <<FpZero>>
    /\ lastOp.leaf # FpZero
    /\ leaves = <<FpZero, lastOp.leaf>>

\* C24: depth() after add(v) is at most depth() before it plus 1.
C24_DepthGrowsByOne ==
    lastOp.name = "add" => depth <= lastOp.prevDepth + 1

\* An add raised the depth from 2 to 3.
C24_Witness ==
    /\ lastOp.name = "add"
    /\ lastOp.prevDepth = 2
    /\ depth = 3

\* ------------------------------------------------------- claims on panics
\* C25: a zk_proof(v) that finds v among the leaves of a tree whose depth()
\* differs from DEPTH aborts without a boolean, and on such a tree no zk_proof
\* returns proof = true.
C25_DepthMismatchFatal ==
    [][\A t \in Threads :
          (/\ pc[t] = "inside"
           /\ req[t].op = "zk_proof"
           /\ pc'[t] = "done"
           /\ depth # DEPTH) =>
              /\ Position(leaves, FpFrom(req[t].value)) >= 0 =>
                     ret'[t].kind = "panic"
              /\ ~(ret'[t].kind = "proof" /\ ret'[t].proof)]_vars

\* zk_proof(90) found the appended leaf in the tree of depth 4 and aborted.
C25_Witness ==
    \E t \in Threads :
        /\ pc[t] = "done"
        /\ req[t].op = "zk_proof"
        /\ req[t].value = 90
        /\ ret[t].ran
        /\ ret[t].known
        /\ ret[t].kind = "panic"
        /\ depth = 4

\* C26: a zk_proof that aborts inside the critical section poisons the lock;
\* from then on the lock stays poisoned, every call that reaches the lock
\* aborts there, and leaves, levels and depth never change.
C26_PoisonIsPermanent ==
    [][/\ \A t \in Threads :
             (pc[t] = "inside" /\ pc'[t] = "done" /\ ret'[t].kind = "panic") =>
                 poisoned'
       /\ poisoned =>
             /\ poisoned'
             /\ UNCHANGED <<leaves, levels, depth>>
             /\ \A t \in Threads :
                    (pc[t] = "lock" /\ pc'[t] # "lock") =>
                        (pc'[t] = "done" /\ ret'[t].kind = "panic")]_vars

\* After zk_proof(10) aborted on the depth mismatch, an add_to_tree call
\* aborted at the lock without appending.
C26_Witness ==
    /\ poisoned
    /\ added = <<>>
    /\ \E t, u \in Threads :
           /\ pc[t] = "done" /\ req[t].op = "zk_proof" /\ req[t].value = 10
           /\ ret[t].ran /\ ret[t].kind = "panic"
           /\ pc[u] = "done" /\ req[u].op = "add_to_tree" /\ req[u].value = 90
           /\ ~ret[u].ran /\ ret[u].kind = "panic"

====
